---- MODULE Spec2Model ----
(***************************************************************************)
(* A model of the qubit-Hamiltonian algebra of                             *)
(* openvqe/hamiltonian/qubit_hamiltonian.py (PauliString and               *)
(* QubitHamiltonian over openfermion's QubitOperator) and of the gate      *)
(* rewriting rules exercised by tests/test_recompilation_routines.py.      *)
(*                                                                         *)
(* Coefficients are complex numbers with integer parts, written <<re, im>>.*)
(* A term key is a tuple of factors <<qubit, axis>>; a QubitOperator's     *)
(* terms are a function from keys to coefficients.  Python's dict order is *)
(* not modelled: no operation below depends on it.                         *)
(***************************************************************************)
EXTENDS Integers, Sequences, FiniteSets, TLC

\* ------------------------------------------------------------------ bounds
\* the most terms of a sum drawn as an input
MaxTerms == 2
\* the object machine: the most QubitHamiltonian objects, operations, and the
\* largest real or imaginary part of a coefficient
MaxHams == 3
MaxSteps == 3
MaxCoeff == 2

\* the qubits of the terms drawn as inputs
Qubits == {0, 1}
\* openfermion QubitOperator.actions
Actions == {"X", "Y", "Z"}

\* ------------------------------------------------- complex coefficients
CZero == <<0, 0>>
COne == <<1, 0>>
CI == <<0, 1>>
CAdd(a, b) == <<a[1] + b[1], a[2] + b[2]>>
CNeg(a) == <<-a[1], -a[2]>>
CSub(a, b) == <<a[1] - b[1], a[2] - b[2]>>
CMul(a, b) == <<a[1] * b[1] - a[2] * b[2], a[1] * b[2] + a[2] * b[1]>>
CConj(a) == <<a[1], -a[2]>>
CScale(n, a) == <<n * a[1], n * a[2]>>

RECURSIVE CSum(_, _)
\* the sum of f[x] over the finite set S
CSum(f, S) ==
  IF S = {} THEN CZero
  ELSE LET x == CHOOSE y \in S : TRUE IN CAdd(f[x], CSum(f, S \ {x}))

\* ------------------------------------------- openfermion QubitOperator
\* _PAULI_OPERATOR_PRODUCTS: (left, right) -> <<coefficient, action>>
PauliProducts(l, r) ==
  CASE l = "I" -> <<COne, r>>
    [] r = "I" -> <<COne, l>>
    [] l = r -> <<COne, "I">>
    [] l = "X" /\ r = "Y" -> <<CI, "Z">>
    [] l = "X" /\ r = "Z" -> <<CNeg(CI), "Y">>
    [] l = "Y" /\ r = "X" -> <<CNeg(CI), "Z">>
    [] l = "Y" /\ r = "Z" -> <<CI, "X">>
    [] l = "Z" /\ r = "X" -> <<CI, "Y">>
    [] l = "Z" /\ r = "Y" -> <<CNeg(CI), "X">>

RECURSIVE FactorsOn(_, _)
\* the factors of term on qubit q, in their order in term
FactorsOn(term, q) ==
  IF term = <<>> THEN <<>>
  ELSE IF Head(term)[1] = q THEN <<Head(term)>> \o FactorsOn(Tail(term), q)
  ELSE FactorsOn(Tail(term), q)

RECURSIVE SortOver(_, _)
SortOver(term, Q) ==
  IF Q = {} THEN <<>>
  ELSE LET q == CHOOSE x \in Q : \A y \in Q : x <= y IN
       FactorsOn(term, q) \o SortOver(term, Q \ {q})

\* sorted(term, key=lambda factor: factor[0]): a stable sort by qubit index
SortByIndex(term) == SortOver(term, {term[i][1] : i \in DOMAIN term})

RECURSIVE SimplifyLoop(_, _, _, _, _)
SimplifyLoop(term, i, left, coef, new) ==
  IF i > Len(term)
  THEN <<coef, IF left[2] # "I" THEN Append(new, left) ELSE new>>
  ELSE LET right == term[i] IN
       IF left[1] = right[1]
       THEN LET pp == PauliProducts(left[2], right[2]) IN
            SimplifyLoop(term, i + 1, <<left[1], pp[2]>>, CMul(coef, pp[1]), new)
       ELSE SimplifyLoop(term, i + 1, right, coef,
                         IF left[2] # "I" THEN Append(new, left) ELSE new)

\* QubitOperator._simplify: <<coefficient, term>> with the factors sorted by
\* qubit and the factors on one qubit multiplied by the Pauli table
Simplify(term, coef) ==
  IF term = <<>> THEN <<coef, term>>
  ELSE LET s == SortByIndex(term) IN SimplifyLoop(s, 2, s[1], coef, <<>>)

\* QubitOperator(term, coefficient): one entry under the simplified key
QubitOperator(term, coefficient) ==
  LET s == Simplify(term, coefficient) IN (s[2] :> s[1])

\* QubitOperator(): no terms
QO_empty == [k \in {} |-> CZero]

\* QubitOperator.identity()
QO_identity == QubitOperator(<<>>, COne)

\* terms.get(k, 0)
Coeff(t, k) == IF k \in DOMAIN t THEN t[k] ELSE CZero

\* QubitOperator.__iadd__: key-wise sum; a key present on both sides whose
\* sum is zero is deleted, a key new to the left side is copied as it is
QO_iadd(t, u) ==
  LET gone == {k \in (DOMAIN t) \cap (DOMAIN u) : CAdd(t[k], u[k]) = CZero} IN
  [k \in ((DOMAIN t) \cup (DOMAIN u)) \ gone |->
     IF k \in DOMAIN t /\ k \in DOMAIN u THEN CAdd(t[k], u[k])
     ELSE IF k \in DOMAIN t THEN t[k] ELSE u[k]]

\* QubitOperator.__isub__
QO_isub(t, u) ==
  LET gone == {k \in (DOMAIN t) \cap (DOMAIN u) : CSub(t[k], u[k]) = CZero} IN
  [k \in ((DOMAIN t) \cup (DOMAIN u)) \ gone |->
     IF k \in DOMAIN t /\ k \in DOMAIN u THEN CSub(t[k], u[k])
     ELSE IF k \in DOMAIN t THEN t[k] ELSE CNeg(u[k])]

\* QubitOperator.__imul__ with an operator: every pair of terms multiplied,
\* products under one key accumulated with += (a zero total keeps its key)
QO_imul(t, u) ==
  LET pairs == (DOMAIN t) \X (DOMAIN u)
      prods == {<<p, Simplify(p[1] \o p[2], CMul(t[p[1]], u[p[2]]))>> : p \in pairs}
      keys == {x[2][2] : x \in prods}
      coef == [x \in prods |-> x[2][1]]
  IN [k \in keys |-> CSum(coef, {x \in prods : x[2][2] = k})]

\* QubitOperator.__imul__ with a number
QO_scale(t, c) == [k \in DOMAIN t |-> CMul(t[k], c)]

\* QubitOperator.__eq__ (isclose): a missing key counts as coefficient 0
QO_eq(t, u) == \A k \in (DOMAIN t) \cup (DOMAIN u) : Coeff(t, k) = Coeff(u, k)

\* -------------------------------------------------------- PauliString
\* A PauliString is [data, coeff]: data is the dict qubit -> axis as the
\* tuple of its items in insertion order, coeff is <<>> for None.
NoCoeff == <<>>

PauliString(data, coeff) == [data |-> data, coeff |-> coeff]

key_openfermion(p) == p.data

PS_coeff(p) == IF p.coeff = NoCoeff THEN COne ELSE p.coeff

\* dict equality of the two _data: the same items, in any order
PS_eq(p, q) ==
  {p.data[i] : i \in DOMAIN p.data} = {q.data[i] : i \in DOMAIN q.data}

RECURSIVE DictFromKey(_, _)
\* data[index] = pauli for each factor of key: a new index is appended, an
\* index already there keeps its place and takes the new axis
DictFromKey(key, data) ==
  IF key = <<>> THEN data
  ELSE LET f == Head(key)
           at == {i \in DOMAIN data : data[i][1] = f[1]}
       IN DictFromKey(Tail(key),
            IF at = {} THEN Append(data, f)
            ELSE [i \in DOMAIN data |-> IF i \in at THEN f ELSE data[i]])

init_from_openfermion(key, coeff) == PauliString(DictFromKey(key, <<>>), coeff)

\* ---------------------------------------------------- QubitHamiltonian
\* Each operation below is given the terms of the operands' QubitOperators
\* and yields the terms of the QubitOperator the result holds.

init_zero == QubitOperator(<<>>, CZero)

init_unit == QO_identity

init_from_string(string) == QubitOperator(string, COne)

\* the key written into the terms as it comes, as conjugate() writes its keys
init_from_paulistring_raw(p) == (key_openfermion(p) :> PS_coeff(p))

init_from_paulistring(p) == QubitOperator(key_openfermion(p), PS_coeff(p))

\* the right operand's entries written over the left's, as dict.update does
QH_add_update(t, u) ==
  [k \in (DOMAIN t) \cup (DOMAIN u) |-> IF k \in DOMAIN u THEN u[k] ELSE t[k]]

QH_add(t, u) == QO_iadd(t, u)

QH_sub(t, u) == QO_isub(t, u)

\* other.hamiltonian * self.hamiltonian
QH_mul_swapped(t, u) == QO_imul(u, t)

QH_mul(t, u) == QO_imul(t, u)

QH_rmul(t, c) == QO_scale(t, c)

RECURSIVE QH_pow(_, _)
\* QubitOperator.__pow__: the identity, then *= self, power times
QH_pow(t, power) ==
  IF power = 0 THEN QO_identity ELSE QO_imul(QH_pow(t, power - 1), t)

QH_eq(t, u) == QO_eq(t, u)

\* sign *= -1 for every factor of key whose axis is y
YSign(key) ==
  IF Cardinality({i \in DOMAIN key : key[i][2] = "Y"}) % 2 = 0 THEN 1 ELSE -1

\* conjugate() without the sign of the y factors
QH_conjugate_nosign(t) ==
  LET z == QubitOperator(<<>>, CZero) IN
  [k \in (DOMAIN z) \cup (DOMAIN t) |->
     IF k \in DOMAIN t THEN CConj(t[k]) ELSE z[k]]

\* QubitOperator("", 0), then terms[key] = ... for every key of the input
QH_conjugate(t) ==
  LET z == QubitOperator(<<>>, CZero) IN
  [k \in (DOMAIN z) \cup (DOMAIN t) |->
     IF k \in DOMAIN t THEN CScale(YSign(k), CConj(t[k])) ELSE z[k]]

QH_transpose(t) ==
  LET z == QubitOperator(<<>>, CZero) IN
  [k \in (DOMAIN z) \cup (DOMAIN t) |->
     IF k \in DOMAIN t THEN CScale(YSign(k), t[k]) ELSE z[k]]

QH_dagger(t) ==
  LET z == QubitOperator(<<>>, CZero) IN
  [k \in (DOMAIN z) \cup (DOMAIN t) |->
     IF k \in DOMAIN t THEN CConj(t[k]) ELSE z[k]]

SetMax(S) == CHOOSE x \in S : \A y \in S : y <= x

\* n_qubits: [status, val]; max(indices) of the key without factors raises
\* ValueError, whatever keys were visited before it
n_qubits(t) ==
  IF <<>> \in DOMAIN t THEN [status |-> "ValueError", val |-> 0]
  ELSE [status |-> "ok",
        val |-> SetMax({0} \cup UNION {{k[i][1] : i \in DOMAIN k} : k \in DOMAIN t}) + 1]

RECURSIVE ListOf(_)
\* the items of a dict as a list, in some order
ListOf(S) ==
  IF S = {} THEN <<>>
  ELSE LET x == CHOOSE y \in S : TRUE IN <<x>> \o ListOf(S \ {x})

\* paulistrings (getter): one PauliString per item of the terms
paulistrings(t) ==
  LET keys == ListOf(DOMAIN t) IN
  [i \in DOMAIN keys |-> init_from_openfermion(keys[i], t[keys[i]])]

\* paulistrings (setter): [status, terms].  The sum starts as
\* QubitOperator.identity(); each PauliString is built with
\* QubitOperator(term=..., value=...), and QubitOperator has no parameter
\* value, so the first one raises TypeError before anything is assigned
set_paulistrings(other) ==
  IF other = <<>> THEN [status |-> "ok", terms |-> QO_identity]
  ELSE [status |-> "TypeError", terms |-> QO_identity]

\* -------------------------------------------------------- the objects
\* ops: the QubitOperator objects (their terms); hams: the QubitHamiltonian
\* objects, each the index in ops of the QubitOperator it refers to;
\* last: the last operation, with the objects as they were before it.
VARIABLES ops, hams, last, steps

objvars == <<ops, hams, last, steps>>

\* A, B, C: the terms of the QubitOperators of three QubitHamiltonian
\* objects; ps, ps2: two PauliStrings; out: what the operation applied to
\* them returned, with the operands as they were before it.
VARIABLES pc, A, B, C, ps, ps2, out

evalvars == <<pc, A, B, C, ps, ps2, out>>

\* circuit: the gates of the circuit given to the compiler; rule: the
\* rewrite applied; compiled: the gates of the circuit it returned.
VARIABLES circuit, rule, compiled

compvars == <<circuit, rule, compiled>>

\* geometry: the lines of a molecular structure, each the words that
\* line.split() gives; geom: the call made with it and what came of it.
VARIABLES geometry, geom

geomvars == <<geometry, geom>>

others == <<evalvars, compvars, geomvars>>

NoPS == PauliString(<<>>, NoCoeff)

Last(op, a, b, res, status, val, p) ==
  [op |-> op, a |-> a, b |-> b, res |-> res, status |-> status, val |-> val,
   ps |-> p, ops |-> ops, hams |-> hams]

InRange(t) ==
  \A k \in DOMAIN t : \A j \in 1..2 : t[k][j] \in -MaxCoeff..MaxCoeff

\* the tuples of factors on distinct qubits, in every order
Datas ==
  {<<>>} \cup {<<<<q, p>>>> : q \in Qubits, p \in Actions}
  \cup {<<<<qq[1], p1>>, <<qq[2], p2>>>> :
          qq \in {x \in Qubits \X Qubits : x[1] # x[2]}, p1 \in Actions, p2 \in Actions}

PSCoeffs == {NoCoeff, CI, <<1, 2>>, CZero}

HamInit ==
  /\ ops = <<>>
  /\ hams = <<>>
  /\ steps = 0
  /\ last = Last("none", 0, 0, 0, "ok", 0, NoPS)

\* a new QubitHamiltonian holding a new QubitOperator with terms t
New(op, a, b, t, p) ==
  /\ steps < MaxSteps
  /\ Len(hams) < MaxHams
  /\ InRange(t)
  /\ ops' = Append(ops, t)
  /\ hams' = Append(hams, Len(ops) + 1)
  /\ steps' = steps + 1
  /\ last' = Last(op, a, b, Len(hams) + 1, "ok", 0, p)
  /\ UNCHANGED others

\* the QubitOperator of QubitHamiltonian a takes the terms t
InPlace(op, a, b, t) ==
  /\ steps < MaxSteps
  /\ InRange(t)
  /\ ops' = [ops EXCEPT ![hams[a]] = t]
  /\ UNCHANGED hams
  /\ steps' = steps + 1
  /\ last' = Last(op, a, b, a, "ok", 0, NoPS)
  /\ UNCHANGED others

Terms(h) == ops[hams[h]]

InitZero == New("init_zero", 0, 0, init_zero, NoPS)

InitUnit == New("init_unit", 0, 0, init_unit, NoPS)

InitFromString == \E d \in Datas : New("init_from_string", 0, 0, init_from_string(d), NoPS)

InitFromPauliString ==
  \E d \in Datas, c \in PSCoeffs :
    New("init_from_paulistring", 0, 0, init_from_paulistring(PauliString(d, c)),
        PauliString(d, c))

\* QubitHamiltonian(hamiltonian=a.hamiltonian): the same QubitOperator object
Construct ==
  \E a \in DOMAIN hams :
    /\ steps < MaxSteps
    /\ Len(hams) < MaxHams
    /\ hams' = Append(hams, hams[a])
    /\ UNCHANGED ops
    /\ steps' = steps + 1
    /\ last' = Last("construct", a, 0, Len(hams) + 1, "ok", 0, NoPS)
    /\ UNCHANGED others

Add == \E a, b \in DOMAIN hams : New("add", a, b, QH_add(Terms(a), Terms(b)), NoPS)

Sub == \E a, b \in DOMAIN hams : New("sub", a, b, QH_sub(Terms(a), Terms(b)), NoPS)

Mul == \E a, b \in DOMAIN hams : New("mul", a, b, QH_mul(Terms(a), Terms(b)), NoPS)

\* += and -= on one and the same QubitOperator object are left out
IAdd ==
  \E a, b \in DOMAIN hams :
    hams[a] # hams[b] /\ InPlace("iadd", a, b, QO_iadd(Terms(a), Terms(b)))

ISub ==
  \E a, b \in DOMAIN hams :
    hams[a] # hams[b] /\ InPlace("isub", a, b, QO_isub(Terms(a), Terms(b)))

IMul == \E a, b \in DOMAIN hams : InPlace("imul", a, b, QO_imul(Terms(a), Terms(b)))

\* the numbers a sum is multiplied by, and the powers it is raised to
Scalars == {CZero, CNeg(COne), CI}

Powers == {0, 1, 2}

\* c * a
RMul ==
  \E a \in DOMAIN hams, c \in Scalars : New("rmul", a, 0, QH_rmul(Terms(a), c), NoPS)

\* a ** n
Pow ==
  \E a \in DOMAIN hams, n \in Powers : New("pow", a, 0, QH_pow(Terms(a), n), NoPS)

Conjugate == \E a \in DOMAIN hams : New("conjugate", a, 0, QH_conjugate(Terms(a)), NoPS)

Transpose == \E a \in DOMAIN hams : New("transpose", a, 0, QH_transpose(Terms(a)), NoPS)

Dagger == \E a \in DOMAIN hams : New("dagger", a, 0, QH_dagger(Terms(a)), NoPS)

NQubits ==
  \E a \in DOMAIN hams :
    /\ steps < MaxSteps
    /\ UNCHANGED <<ops, hams>>
    /\ steps' = steps + 1
    /\ last' = LET r == n_qubits(Terms(a)) IN
               Last("n_qubits", a, 0, 0, r.status, r.val, NoPS)
    /\ UNCHANGED others

\* h.paulistrings = h.paulistrings
RoundTrip ==
  \E a \in DOMAIN hams :
    LET r == set_paulistrings(paulistrings(Terms(a))) IN
    /\ steps < MaxSteps
    /\ IF r.status = "ok"
       THEN ops' = Append(ops, r.terms) /\ hams' = [hams EXCEPT ![a] = Len(ops) + 1]
       ELSE UNCHANGED <<ops, hams>>
    /\ steps' = steps + 1
    /\ last' = Last("roundtrip", a, 0, a, r.status, 0, NoPS)
    /\ UNCHANGED others

HamNext ==
  \/ InitZero \/ InitUnit \/ InitFromString \/ InitFromPauliString \/ Construct
  \/ Add \/ Sub \/ Mul \/ RMul \/ Pow \/ IAdd \/ ISub \/ IMul
  \/ Conjugate \/ Transpose \/ Dagger \/ NQubits \/ RoundTrip


\* ------------------------------------------- operations on drawn inputs

NoOut == [op |-> "none"]

\* the keys of QubitOperator terms over Qubits: factors sorted by qubit
Keys ==
  {SortByIndex(ListOf({<<q, f[q]>> : q \in DOMAIN f})) :
     f \in UNION {[Q -> Actions] : Q \in SUBSET Qubits}}

\* the sums of at most n terms with coefficients in cs
SumsOf(n, cs) ==
  UNION {[D -> cs] : D \in {S \in SUBSET Keys : Cardinality(S) <= n}}

InCoeffs == {CZero, COne, CI, <<1, 2>>}

Units == {COne, CNeg(COne), CI, CNeg(CI)}

Signs == {COne, CNeg(COne)}

UnaryInputs == SumsOf(MaxTerms, InCoeffs)

\* one term, with a unit coefficient
UnitTerms == SumsOf(1, Units) \ {QO_empty}

\* at most MaxTerms terms, each with coefficient 1
PlainSums == SumsOf(MaxTerms, {COne})

\* no term, or one term with coefficient 1 or -1
SignedTerms == SumsOf(1, Signs)

PSInputs == {PauliString(d, c) : d \in Datas, c \in PSCoeffs}

EvalIdle ==
  /\ pc = "idle" /\ A = QO_empty /\ B = QO_empty /\ C = QO_empty
  /\ ps = NoPS /\ ps2 = NoPS /\ out = NoOut

\* one QubitHamiltonian, then one of its methods
UnaryInit ==
  /\ pc = "in" /\ A \in UnaryInputs
  /\ B = QO_empty /\ C = QO_empty /\ ps = NoPS /\ ps2 = NoPS /\ out = NoOut

Done(o) ==
  /\ pc = "in" /\ pc' = "done" /\ out' = o
  /\ UNCHANGED <<B, C, ps, ps2, objvars, compvars, geomvars>>

DoNQubits ==
  /\ Done([op |-> "n_qubits", self |-> A, r |-> n_qubits(A)])
  /\ UNCHANGED A

DoConjugate ==
  /\ Done([op |-> "conjugate", self |-> A, terms |-> QH_conjugate(A)])
  /\ UNCHANGED A

DoTranspose ==
  /\ Done([op |-> "transpose", self |-> A, terms |-> QH_transpose(A)])
  /\ UNCHANGED A

DoDagger ==
  /\ Done([op |-> "dagger", self |-> A, terms |-> QH_dagger(A)])
  /\ UNCHANGED A

\* h.paulistrings = h.paulistrings
DoRoundTrip ==
  LET r == set_paulistrings(paulistrings(A)) IN
  /\ Done([op |-> "roundtrip", self |-> A, status |-> r.status])
  /\ A' = IF r.status = "ok" THEN r.terms ELSE A

UnaryNext == DoNQubits \/ DoConjugate \/ DoTranspose \/ DoDagger \/ DoRoundTrip

\* two QubitHamiltonians of one term each, then A * B or A *= B
MulInit ==
  /\ pc = "in" /\ A \in UnitTerms /\ B \in UnitTerms
  /\ C = QO_empty /\ ps = NoPS /\ ps2 = NoPS /\ out = NoOut

DoMul ==
  /\ Done([op |-> "mul", self |-> A, other |-> B, terms |-> QH_mul(A, B)])
  /\ UNCHANGED A

DoIMul ==
  /\ Done([op |-> "imul", self |-> A, other |-> B, terms |-> QO_imul(A, B)])
  /\ A' = QO_imul(A, B)

MulNext == DoMul \/ DoIMul

\* three QubitHamiltonians, then A * (B + C) and A * B + A * C
DistribInit ==
  /\ pc = "in" /\ A \in PlainSums /\ B \in SignedTerms /\ C \in SignedTerms
  /\ ps = NoPS /\ ps2 = NoPS /\ out = NoOut

DoDistribute ==
  /\ Done([op |-> "distribute",
           sum |-> QH_add(B, C),
           lhs |-> QH_mul(A, QH_add(B, C)),
           rhs |-> QH_add(QH_mul(A, B), QH_mul(A, C))])
  /\ UNCHANGED A

\* two PauliStrings, then init_from_paulistring of each and their sum
PSInit ==
  /\ pc = "in" /\ ps \in PSInputs /\ ps2 \in PSInputs
  /\ A = QO_empty /\ B = QO_empty /\ C = QO_empty /\ out = NoOut

DoLift ==
  /\ pc = "in" /\ pc' = "done"
  /\ A' = init_from_paulistring(ps)
  /\ B' = init_from_paulistring(ps2)
  /\ C' = QH_add(init_from_paulistring(ps), init_from_paulistring(ps2))
  /\ out' = [op |-> "lift"]
  /\ UNCHANGED <<ps, ps2, objvars, compvars, geomvars>>

\* ------------------------------------------------------- the compiler
\* A gate is [kind, target, control, angle, dagger]: control is the set of
\* control qubits, angle is <<>> for a gate without a parameter and <<n>>
\* for the angle n * pi / 2.
NoAngle == <<>>

Gate(kind, target, control, angle) ==
  [kind |-> kind, target |-> target, control |-> control, angle |-> angle,
   dagger |-> FALSE]

Dag(g) == [g EXCEPT !.dagger = ~g.dagger]

Rx(target, control, angle) == Gate("Rx", target, control, <<angle>>)

Ry(target, control, angle) == Gate("Ry", target, control, <<angle>>)

Rz(target, control, angle) == Gate("Rz", target, control, <<angle>>)

GX(target, control) == Gate("X", target, control, NoAngle)

GY(target, control) == Gate("Y", target, control, NoAngle)

GH(target, control) == Gate("H", target, control, NoAngle)

GS(target) == Gate("S", target, {}, NoAngle)

GT(target) == Gate("T", target, {}, NoAngle)

CX(target, control) == GX(target, {control})

\* pi / 2 and pi, in units of pi / 2
HalfPi == 1
Pi == 2

\* the control put on all three gates
ry_rule_controlled(g) ==
  IF g.kind = "Ry"
  THEN <<Rz(g.target, g.control, -HalfPi), Rx(g.target, g.control, g.angle[1]),
         Rz(g.target, g.control, HalfPi)>>
  ELSE <<g>>

ry_rule(g) ==
  IF g.kind = "Ry"
  THEN <<Rz(g.target, {}, -HalfPi), Rx(g.target, g.control, g.angle[1]),
         Rz(g.target, {}, HalfPi)>>
  ELSE <<g>>

y_rule(g) ==
  IF g.kind = "Y"
  THEN <<Rz(g.target, {}, -HalfPi), Rx(g.target, g.control, Pi),
         Rz(g.target, {}, HalfPi)>>
  ELSE <<g>>

\* the closing S put on the target
ch_rule_target(g) ==
  IF g.kind = "H" /\ g.control # {}
  THEN LET t == g.target
           c == CHOOSE q \in g.control : TRUE
       IN <<GH(t, {}), Dag(GS(t)), CX(t, c), GH(t, {}), GT(t), CX(t, c),
            GT(t), GH(t, {}), GS(t), GX(t, {}), GS(t)>>
  ELSE <<g>>

ch_rule(g) ==
  IF g.kind = "H" /\ g.control # {}
  THEN LET t == g.target
           c == CHOOSE q \in g.control : TRUE
       IN <<GH(t, {}), Dag(GS(t)), CX(t, c), GH(t, {}), GT(t), CX(t, c),
            GT(t), GH(t, {}), GS(t), GX(t, {}), GS(c)>>
  ELSE <<g>>

\* what the rule named r makes of gate g
Apply(r, g) ==
  CASE r = "compile_ry" -> ry_rule(g)
    [] r = "compile_y" -> y_rule(g)
    [] r = "compile_ch" -> ch_rule(g)

RECURSIVE Rewrite_reversed(_, _, _)
\* the results concatenated last gate first
Rewrite_reversed(r, c, i) ==
  IF i > Len(c) THEN <<>> ELSE Rewrite_reversed(r, c, i + 1) \o Apply(r, c[i])

RECURSIVE Rewrite(_, _, _)
\* every gate of the circuit replaced by what the rule makes of it, in order
Rewrite(r, c, i) ==
  IF i > Len(c) THEN <<>> ELSE Apply(r, c[i]) \o Rewrite(r, c, i + 1)

compile_ry(c) == Rewrite("compile_ry", c, 1)

compile_y(c) == Rewrite("compile_y", c, 1)

compile_ch(c) == Rewrite("compile_ch", c, 1)

\* the most gates of a circuit given to the compiler
MaxGates == 2

GateQubits == {0, 1, 2}

AngleInputs == {2, 3}

\* target and control of a gate: no control, or one that is not the target
Placements ==
  {<<t, {}>> : t \in GateQubits}
  \cup {<<x[1], {x[2]}>> : x \in {y \in GateQubits \X GateQubits : y[1] # y[2]}}

GateInputs ==
  {Gate(k, p[1], p[2], NoAngle) : k \in {"X", "Y", "H"}, p \in Placements}
  \cup {Ry(p[1], p[2], a) : p \in Placements, a \in AngleInputs}

Circuits == UNION {[1..n -> GateInputs] : n \in 1..MaxGates}

CompIdle == circuit = <<>> /\ rule = "none" /\ compiled = <<>>

CompInit == circuit \in Circuits /\ rule = "none" /\ compiled = <<>>

Compile(r, c) ==
  /\ rule = "none"
  /\ rule' = r
  /\ compiled' = c
  /\ UNCHANGED <<circuit, objvars, evalvars, geomvars>>

CompileRy == Compile("compile_ry", compile_ry(circuit))

CompileY == Compile("compile_y", compile_y(circuit))

CompileCH == Compile("compile_ch", compile_ch(circuit))

CompNext == CompileRy \/ CompileY \/ CompileCH

\* ------------------------------------------------------- the geometry
\* A word is the tuple of its characters, a line the tuple of its words.
MaxLines == 2

Digits == {"0", "1"}

DigitValue(ch) == IF ch = "1" THEN 1 ELSE 0

\* str.upper and str.lower on one character
Upper(ch) ==
  CASE ch = "h" -> "H" [] ch = "l" -> "L" [] ch = "i" -> "I" [] OTHER -> ch

Lower(ch) ==
  CASE ch = "H" -> "h" [] ch = "L" -> "l" [] ch = "I" -> "i" [] OTHER -> ch

\* string[0].upper() + string[1:].lower()
format_element_name(string) ==
  [i \in DOMAIN string |-> IF i = 1 THEN Upper(string[i]) ELSE Lower(string[i])]

RECURSIVE DigitsValue(_, _, _)
\* the value of the digits of word from position i on, after the value acc
DigitsValue(word, i, acc) ==
  IF i > Len(word) THEN acc
  ELSE DigitsValue(word, i + 1, 10 * acc + DigitValue(word[i]))

\* float64(word): [status, val]; a word that is not a number, here anything
\* but digits after an optional sign, raises ValueError
float64(word) ==
  LET neg == word # <<>> /\ word[1] = "-"
      from == IF neg THEN 2 ELSE 1
  IN IF from <= Len(word) /\ \A i \in from..Len(word) : word[i] \in Digits
     THEN [status |-> "ok",
           val |-> IF neg THEN -DigitsValue(word, from, 0)
                   ELSE DigitsValue(word, from, 0)]
     ELSE [status |-> "ValueError", val |-> 0]

RECURSIVE convert_loop(_, _, _, _)
\* the loop over the lines from line i on: a line that has not four words
\* ends the loop, a line with a word float64 rejects is printed and skipped
convert_loop(lines, i, result, printed) ==
  IF i > Len(lines) THEN [status |-> "ok", result |-> result, printed |-> printed]
  ELSE LET words == lines[i]
           x == float64(words[2])
           y == float64(words[3])
           z == float64(words[4])
       IN IF Len(words) # 4
          THEN [status |-> "ok", result |-> result, printed |-> printed]
          ELSE IF x.status = "ok" /\ y.status = "ok" /\ z.status = "ok"
          THEN convert_loop(lines, i + 1,
                 Append(result, <<format_element_name(words[1]), <<x.val, y.val, z.val>>>>),
                 printed)
          ELSE convert_loop(lines, i + 1, result, Append(printed, words))

\* convert_to_list: [status, result, printed]
convert_to_list(lines) == convert_loop(lines, 1, <<>>, <<>>)

\* read_xyz_from_file of a file with the number natoms in its first line, a
\* comment line and then the lines atoms, each ended by a newline:
\* [status, lines], the lines being those of the string coord
read_xyz_from_file(natoms, atoms) ==
  IF natoms > Len(atoms) THEN [status |-> "IndexError", lines |-> <<>>]
  ELSE [status |-> "ok", lines |-> Append(SubSeq(atoms, 1, natoms), <<>>)]

\* get_geometry with the geometry given as a string
get_geometry(lines) == convert_to_list(lines)

\* get_geometry with the geometry naming an xyz file
get_geometry_xyz(natoms, atoms) ==
  LET f == read_xyz_from_file(natoms, atoms) IN
  IF f.status = "ok" THEN convert_to_list(f.lines)
  ELSE [status |-> f.status, result |-> <<>>, printed |-> <<>>]

ElementWords == {<<"h">>, <<"l", "I">>}

NumberWords == {<<"0">>, <<"-", "1", "0">>}

NotANumber == <<"x">>

\* an element and three coordinates
GoodLines ==
  {<<e, c[1], c[2], c[3]>> : e \in ElementWords, c \in [1..3 -> NumberWords]}

\* one coordinate that is not a number
BadNumberLines ==
  {[l EXCEPT ![j] = NotANumber] : l \in {g \in GoodLines : g[1] = <<"h">>}, j \in 2..4}

\* three fields, five fields
ShortLines == {SubSeq(l, 1, 3) : l \in GoodLines}

LongLines == {Append(l, <<"0">>) : l \in {g \in GoodLines : g[1] = <<"h">>}}

LineInputs == GoodLines \cup BadNumberLines \cup ShortLines \cup LongLines \cup {<<>>}

Geometries == UNION {[1..n -> LineInputs] : n \in 1..MaxLines}

NoGeom == [op |-> "none"]

GeomIdle == geometry = <<>> /\ geom = NoGeom

GeomInit == geometry \in Geometries /\ geom = NoGeom

Called(op, lines, r) ==
  /\ geom = NoGeom
  /\ geom' = [op |-> op, lines |-> lines, status |-> r.status,
               result |-> r.result, printed |-> r.printed]
  /\ UNCHANGED <<geometry, objvars, evalvars, compvars>>

ConvertToList == Called("convert_to_list", geometry, convert_to_list(geometry))

GetGeometry == Called("get_geometry", geometry, get_geometry(geometry))

\* the lines of geometry as the atom lines of an xyz file
GetGeometryXYZ ==
  \E natoms \in 0..(Len(geometry) + 1) :
    Called("get_geometry_xyz", read_xyz_from_file(natoms, geometry).lines,
           get_geometry_xyz(natoms, geometry))

GeomNext == ConvertToList \/ GetGeometry \/ GetGeometryXYZ

\* ------------------------------------------------- the specifications
vars == <<objvars, evalvars, compvars, geomvars>>

\* the objects, under any sequence of operations
Init == HamInit /\ EvalIdle /\ CompIdle /\ GeomIdle

Spec == Init /\ [][HamNext]_vars

UnaryStart == HamInit /\ UnaryInit /\ CompIdle /\ GeomIdle

SpecUnary == UnaryStart /\ [][UnaryNext]_vars

MulStart == HamInit /\ MulInit /\ CompIdle /\ GeomIdle

SpecMul == MulStart /\ [][MulNext]_vars

DistribStart == HamInit /\ DistribInit /\ CompIdle /\ GeomIdle

DistribNext == DoDistribute

SpecDistrib == DistribStart /\ [][DistribNext]_vars

PSStart == HamInit /\ PSInit /\ CompIdle /\ GeomIdle

PSNext == DoLift

SpecPS == PSStart /\ [][PSNext]_vars

CompStart == HamInit /\ EvalIdle /\ CompInit /\ GeomIdle

SpecCompiler == CompStart /\ [][CompNext]_vars

GeomStart == HamInit /\ EvalIdle /\ CompIdle /\ GeomInit

SpecGeom == GeomStart /\ [][GeomNext]_vars

\* ------------------------------------------------------------ the claims
\* the largest qubit index of any factor of any key of t
MaxIndex(t) == SetMax(UNION {{k[i][1] : i \in DOMAIN k} : k \in DOMAIN t})

\* C1: n_qubits of a sum whose only key is the identity term returns 0 and
\* does not fail.
C1_IdentityHasZeroQubits ==
  (pc = "done" /\ out.op = "n_qubits" /\ DOMAIN out.self = {<<>>})
    => out.r = [status |-> "ok", val |-> 0]

\* C2: assigning h.paulistrings back to h.paulistrings succeeds and leaves h
\* with the mapping it had, the coefficient of the identity term included.
C2_RoundTripKeepsTheSum ==
  (pc = "done" /\ out.op = "roundtrip") => (out.status = "ok" /\ A = out.self)

\* C3: n_qubits of a sum with a term that is not the identity returns
\* 1 + the largest qubit index, whether or not the identity term is there too.
C3_OnePlusMaxIndex ==
  (pc = "done" /\ out.op = "n_qubits" /\ DOMAIN out.self \ {<<>>} # {})
    => out.r = [status |-> "ok", val |-> 1 + MaxIndex(out.self)]

\* ---- C4
RECURSIVE CProd(_, _)
\* the product of f[x] over the finite set S
CProd(f, S) ==
  IF S = {} THEN COne
  ELSE LET x == CHOOSE y \in S : TRUE IN CMul(f[x], CProd(f, S \ {x}))

\* the axis of key on qubit q, "I" when key has no factor there
AxisAt(key, q) ==
  IF \E i \in DOMAIN key : key[i][1] = q
  THEN key[CHOOSE i \in DOMAIN key : key[i][1] = q][2]
  ELSE "I"

\* X -> Y -> Z -> X
NextAxis(p) == CASE p = "X" -> "Y" [] p = "Y" -> "Z" [] p = "Z" -> "X"

\* the Pauli table as the claim words it: <<phase, axis>> of l times r
TableOf(l, r) ==
  IF l = "I" THEN <<COne, r>>
  ELSE IF r = "I" THEN <<COne, l>>
  ELSE IF l = r THEN <<COne, "I">>
  ELSE IF r = NextAxis(l) THEN <<CI, NextAxis(r)>>
  ELSE <<CNeg(CI), NextAxis(l)>>

\* {ka: ca} times {kb: cb} is the one term the table gives
IsTableProduct(t, u, r) ==
  LET ka == CHOOSE k \in DOMAIN t : TRUE
      kb == CHOOSE k \in DOMAIN u : TRUE
      tab == [q \in Qubits |-> TableOf(AxisAt(ka, q), AxisAt(kb, q))]
      phase == [q \in Qubits |-> tab[q][1]]
  IN /\ Cardinality(DOMAIN r) = 1
     /\ \A k \in DOMAIN r :
          /\ k \in Keys
          /\ \A q \in Qubits : AxisAt(k, q) = tab[q][2]
          /\ r[k] = CMul(CMul(t[ka], u[kb]), CProd(phase, Qubits))

\* C4: the product of two one-term sums has one term: on every qubit the
\* axis the Pauli table gives for the two factors there (XY=iZ, YZ=iX, ZX=iY,
\* the reversed products with -i, XX=YY=ZZ=identity, a factor met on one side
\* only unchanged), with the product of the two coefficients and the phases;
\* *= leaves that product in the left operand.
C4_MulFollowsPauliTable ==
  (pc = "done" /\ out.op \in {"mul", "imul"})
    => /\ IsTableProduct(out.self, out.other, out.terms)
       /\ B = out.other
       /\ A = IF out.op = "imul" THEN out.terms ELSE out.self

\* (i X0 Y1) * (-1 Y0) = Z0 Y1: a reduction on qubit 0, qubit 1 passed through
C4_Witness ==
  /\ pc = "done" /\ out.op = "mul"
  /\ out.self = (<<<<0, "X">>, <<1, "Y">>>> :> CI)
  /\ out.other = (<<<<0, "Y">>>> :> CNeg(COne))
  /\ out.terms = (<<<<0, "Z">>, <<1, "Y">>>> :> COne)

\* C5: A * (B + C) == A * B + A * C under the equality of sums.
C5_LeftDistributive ==
  (pc = "done" /\ out.op = "distribute") => QH_eq(out.lhs, out.rhs)

\* the two sides are equal sums with different mappings: the product keeps a
\* key whose coefficients cancel, the sum of the products deletes it
C5_Witness ==
  /\ pc = "done" /\ out.op = "distribute"
  /\ Cardinality(DOMAIN A) = 2 /\ DOMAIN out.sum # {}
  /\ out.lhs # out.rhs
  /\ \E k \in DOMAIN out.lhs : out.lhs[k] # CZero

\* ---- C6
RECURSIVE MinusOneTo(_)
MinusOneTo(n) == IF n = 0 THEN 1 ELSE -MinusOneTo(n - 1)

YCount(key) == Cardinality({q \in Qubits : AxisAt(key, q) = "Y"})

\* C6: conjugate() gives every key k of the input the coefficient
\* conj(c_k) * (-1)^(Y factors of k), transpose() gives it c_k * (-1)^(Y
\* factors of k), and neither changes the input.
C6_ConjugateAndTranspose ==
  /\ (pc = "done" /\ out.op = "conjugate")
       => /\ \A k \in DOMAIN out.self :
               /\ k \in DOMAIN out.terms
               /\ out.terms[k] = CScale(MinusOneTo(YCount(k)), CConj(out.self[k]))
          /\ A = out.self
  /\ (pc = "done" /\ out.op = "transpose")
       => /\ \A k \in DOMAIN out.self :
               /\ k \in DOMAIN out.terms
               /\ out.terms[k] = CScale(MinusOneTo(YCount(k)), out.self[k])
          /\ A = out.self

\* conjugate() of (1+2i) Y0 + (1+2i) Y0 Y1 is (-1+2i) Y0 + (1-2i) Y0 Y1
C6_Witness ==
  /\ pc = "done" /\ out.op = "conjugate"
  /\ out.self = (<<<<0, "Y">>>> :> <<1, 2>> @@ <<<<0, "Y">>, <<1, "Y">>>> :> <<1, 2>>)
  /\ out.terms[<<<<0, "Y">>>>] = <<-1, 2>>
  /\ out.terms[<<<<0, "Y">>, <<1, "Y">>>>] = <<1, -2>>

\* C7: dagger() returns the mapping of the input with every coefficient
\* conjugated, on the same set of keys, so that dagger(dagger(A)) == A.
C7_DaggerKeepsTheKeys ==
  (pc = "done" /\ out.op = "dagger")
    => /\ DOMAIN out.terms = DOMAIN out.self
       /\ \A k \in DOMAIN out.self : out.terms[k] = CConj(out.self[k])
       /\ QH_eq(QH_dagger(out.terms), out.self)

\* C8: two PauliStrings that compare equal and have the same coefficient are
\* lifted by init_from_paulistring to the same sum, and the sum of the two
\* has no key but theirs, with the two coefficients added.
C8_InsertionOrderIsForgotten ==
  (pc = "done" /\ out.op = "lift" /\ PS_eq(ps, ps2) /\ PS_coeff(ps) = PS_coeff(ps2))
    => /\ A = B
       /\ QH_eq(A, B)
       /\ Cardinality(DOMAIN A) = 1
       /\ DOMAIN C \subseteq DOMAIN A
       /\ \A k \in DOMAIN A : Coeff(C, k) = CAdd(PS_coeff(ps), PS_coeff(ps2))

\* Y1 X0 and X0 Y1, both with coefficient i: one key, coefficient 2i
C8_Witness ==
  /\ pc = "done" /\ out.op = "lift"
  /\ ps = PauliString(<<<<1, "Y">>, <<0, "X">>>>, CI)
  /\ ps2 = PauliString(<<<<0, "X">>, <<1, "Y">>>>, CI)
  /\ C = (<<<<0, "X">>, <<1, "Y">>>> :> <<0, 2>>)

\* ---- C9, C10
\* gate g is of this kind, on this target, with these controls and this
\* angle, and is not daggered
IsGate(g, kind, target, control, angle) ==
  /\ g.kind = kind /\ g.target = target /\ g.control = control
  /\ g.angle = angle /\ g.dagger = FALSE

\* Rz(t, -pi/2), Rx(t, control, angle), Rz(t, pi/2)
IsSandwich(c, t, control, angle) ==
  /\ Len(c) = 3
  /\ IsGate(c[1], "Rz", t, {}, <<-1>>)
  /\ IsGate(c[2], "Rx", t, control, angle)
  /\ IsGate(c[3], "Rz", t, {}, <<1>>)

\* C9: compile_ry of the one gate Ry(t, control, a) is Rz(t, -pi/2),
\* Rx(t, control, a), Rz(t, pi/2); compile_y of the one gate Y(t, control) is
\* the same with a = pi; the two Rz are not controlled.
C9_RySandwich ==
  /\ (rule = "compile_ry" /\ Len(circuit) = 1 /\ circuit[1].kind = "Ry")
       => IsSandwich(compiled, circuit[1].target, circuit[1].control, circuit[1].angle)
  /\ (rule = "compile_y" /\ Len(circuit) = 1 /\ circuit[1].kind = "Y")
       => IsSandwich(compiled, circuit[1].target, circuit[1].control, <<2>>)

\* Ry(0, control 1, 3 pi / 2) compiled
C9_Witness ==
  /\ rule = "compile_ry"
  /\ circuit = <<Ry(0, {1}, 3)>>
  /\ Len(compiled) = 3
  /\ compiled[2].control = {1}

\* C10: compile_ch of the one gate H(t, control c) is H(t), S(t) daggered,
\* CX(t, c), H(t), T(t), CX(t, c), T(t), H(t), S(t), X(t), S(c).
C10_ControlledH ==
  (rule = "compile_ch" /\ Len(circuit) = 1 /\ circuit[1].kind = "H"
     /\ circuit[1].control # {})
    => LET t == circuit[1].target
           cs == circuit[1].control
           kinds == <<"H", "S", "X", "H", "T", "X", "T", "H", "S", "X", "S">>
       IN /\ Len(compiled) = 11
          /\ \A i \in 1..11 :
               /\ compiled[i].kind = kinds[i]
               /\ compiled[i].angle = <<>>
               /\ compiled[i].dagger = (i = 2)
               /\ compiled[i].control = IF i \in {3, 6} THEN cs ELSE {}
               /\ IF i = 11 THEN {compiled[i].target} = cs ELSE compiled[i].target = t

\* H(2, control 0) compiled
C10_Witness ==
  /\ rule = "compile_ch"
  /\ circuit = <<GH(2, {0})>>
  /\ Len(compiled) = 11
  /\ compiled[11].target = 0

\* ---- C11
\* the gates the rule named r rewrites
Matches(r, g) ==
  CASE r = "compile_ry" -> g.kind = "Ry"
    [] r = "compile_y" -> g.kind = "Y"
    [] r = "compile_ch" -> g.kind = "H" /\ g.control # {}

\* the number of gates that stand for g in the output
OutLen(r, g) ==
  IF Matches(r, g) THEN (IF r = "compile_ch" THEN 11 ELSE 3) ELSE 1

RECURSIVE OutStart(_, _, _)
\* the number of output gates that stand for the gates before position i
OutStart(r, c, i) ==
  IF i = 1 THEN 0 ELSE OutStart(r, c, i - 1) + OutLen(r, c[i - 1])

\* H(t), S(t) daggered, CX(t, cs), H(t), T(t), CX(t, cs), T(t), H(t), S(t),
\* X(t), S(cs)
IsCHSequence(c, t, cs) ==
  LET kinds == <<"H", "S", "X", "H", "T", "X", "T", "H", "S", "X", "S">> IN
  /\ Len(c) = 11
  /\ \A i \in 1..11 :
       /\ c[i].kind = kinds[i]
       /\ c[i].angle = <<>>
       /\ c[i].dagger = (i = 2)
       /\ c[i].control = IF i \in {3, 6} THEN cs ELSE {}
       /\ IF i = 11 THEN {c[i].target} = cs ELSE c[i].target = t

\* c is the rewrite of the matching gate g under the rule named r
IsRewriteOf(r, g, c) ==
  CASE r = "compile_ry" -> IsSandwich(c, g.target, g.control, g.angle)
    [] r = "compile_y" -> IsSandwich(c, g.target, g.control, <<2>>)
    [] r = "compile_ch" -> IsCHSequence(c, g.target, g.control)

\* the output holds, for every gate of the input and in the input's order,
\* the gate itself when the rule does not match it and its rewrite when it does
InPlaceOfEachGate ==
  rule # "none" =>
    /\ Len(compiled) = OutStart(rule, circuit, Len(circuit) + 1)
    /\ \A i \in DOMAIN circuit :
         LET o == OutStart(rule, circuit, i) IN
         IF Matches(rule, circuit[i])
         THEN IsRewriteOf(rule, circuit[i],
                          SubSeq(compiled, o + 1, o + OutLen(rule, circuit[i])))
         ELSE compiled[o + 1] = circuit[i]

\* C11: compiling a circuit for one gate kind puts the rewrite of every
\* matching gate at that gate's position and copies every other gate
\* unchanged, in the original order; the result is another circuit and the
\* gate sequence of the input stays as it was.
C11_RewriteInPlaceOfEachGate ==
  [](InPlaceOfEachGate) /\ [][circuit' = circuit]_vars

\* Ry(0, control 1, 3 pi / 2), H(2, control 0) compiled for Ry: the sandwich,
\* then the H gate as it was
C11_Witness ==
  /\ rule = "compile_ry"
  /\ circuit = <<Ry(0, {1}, 3), GH(2, {0})>>
  /\ Len(compiled) = 4
  /\ compiled[2] = Rx(0, {1}, 3)
  /\ compiled[4] = GH(2, {0})

\* ---- C12
\* a line that has words but not four of them, or a coordinate that is not a
\* number
Malformed(line) ==
  /\ line # <<>>
  /\ \/ Len(line) # 4
     \/ \E j \in 2..4 : float64(line[j]).status # "ok"

\* C12: convert_to_list given a malformed line (not four fields, or a
\* coordinate that is not a number) fails with an error; it never returns a
\* list without that line or without the lines after it.
C12_MalformedLineIsFatal ==
  (geom.op # "none" /\ \E i \in DOMAIN geom.lines : Malformed(geom.lines[i]))
    => geom.status # "ok"

\* ---- C13
PureOps == {"add", "sub", "mul", "rmul", "pow"}

InPlaceOps == {"iadd", "isub", "imul"}

\* the sum object h has the mapping it had before the last operation
Kept(h) == Terms(h) = last.ops[last.hams[h]]

\* C13: +, -, *, scalar multiply and ** change none of the sums there are,
\* and +=, -=, *= change only their left operand: the right operand and every
\* other sum, a sum constructed from the same QubitOperator included, keeps
\* its mapping from keys to coefficients.
C13_OnlyTheLeftOperandChanges ==
  /\ last.op \in PureOps => \A h \in DOMAIN last.hams : Kept(h)
  /\ last.op \in InPlaceOps => \A h \in DOMAIN last.hams \ {last.a} : Kept(h)

====
